---- MODULE Spec2Model ----
(***************************************************************************)
(* Model of the AliasTimer React component                                 *)
(* (src/src/components/AliasTimer.tsx).                                    *)
(*                                                                         *)
(* State: the two useState cells `timer` and `settings`, the panel flag    *)
(* `showSettings`, the ref `intervalRef`, and the set of intervals that    *)
(* setInterval has created and clearInterval has not yet cleared, each     *)
(* with the `settings` object its callback closed over.                    *)
(*                                                                         *)
(* Scheduling: an event handler (click, change) or an interval callback    *)
(* runs to completion.  The entry file, which is not part of src/, mounts  *)
(* the component on a legacy root (ReactDOM.render) or on a concurrent     *)
(* root (createRoot); `root` holds which.  The interval callback calls     *)
(* setTimer with its updater.  A legacy root runs the updater and renders  *)
(* within the call.  A concurrent root renders in a later task (Render),   *)
(* and until then the handlers on screen are those of the previous render, *)
(* which read `timer` of that render (`rendered`); a click is rendered     *)
(* with its handler; under React 18 that render leaves out an update of    *)
(* the interval callback that is still waiting: it shows the click's       *)
(* updater applied to what was on screen, while `timer` holds every        *)
(* updater applied in the order of the calls; under React 19 it takes the  *)
(* waiting update along.  An updater plays its cue in the step in which    *)
(* React runs it.  The useEffect of lines 95-164 is a passive effect:      *)
(* React runs it after the render as a step of its own (RunEffect), at the *)
(* latest when the next render starts, and on a concurrent root before an  *)
(* input event returns when the event caused the render.  Between a state  *)
(* change and the run of the effect the interval armed by the previous run *)
(* is still live and its callback can fire.                                *)
(***************************************************************************)
EXTENDS Integers, Sequences, FiniteSets

\* ------------------------------------------------------------ constants

TurnInit == 60
GuessInit == 30
SpecialInit == 45
CurrentTimeInit == 60
TurnFallback == 60
GuessFallback == 30
SpecialFallback == 45
WarnFrom == 5
WordMax == 5

\* Bounds of the model: how many settings edits (onChange events) a
\* behaviour holds, and how many interval callbacks fire between two runs
\* of the effect for a render that shows the current timer (each callback
\* changes a dependency of the effect, and React renders and runs the
\* effect within the frame).
MaxEdits == 1
MaxStaleTicks == 1

\* ------------------------------------------------------- settings input

Digits == <<"0", "1", "2", "3", "4", "5", "6", "7", "8", "9">>

IsDigit(c) == \E i \in 1..10 : Digits[i] = c

DigitVal(c) == (CHOOSE i \in 1..10 : Digits[i] = c) - 1

\* The digits at the head of a text, as a number; -1 when there is none.
RECURSIVE DigitsPrefix(_, _, _)
DigitsPrefix(s, i, acc) ==
    IF i > Len(s) \/ ~IsDigit(s[i])
    THEN acc
    ELSE DigitsPrefix(s, i + 1, (IF acc < 0 THEN 0 ELSE acc) * 10 + DigitVal(s[i]))

\* JavaScript parseInt of a text (a sequence of characters), radix 10:
\* an optional sign, then the longest run of digits; whatever follows is
\* ignored; NaN when no digit stands there.
parseInt(s) ==
    LET signed == Len(s) > 0 /\ s[1] \in {"-", "+"}
        mag == DigitsPrefix(s, IF signed THEN 2 ELSE 1, -1)
    IN  IF mag < 0
        THEN [nan |-> TRUE, val |-> 0]
        ELSE [nan |-> FALSE,
              val |-> IF signed /\ s[1] = "-" THEN 0 - mag ELSE mag]

\* `parseInt(e.target.value) || fallback`: NaN and 0 are falsy.
OrFallback(p, fallback) == IF p.nan \/ p.val = 0 THEN fallback ELSE p.val

\* The values e.target.value takes in the model.  An <input type="number">
\* reports "" for a text that is no number and the text itself otherwise;
\* min/max mark the field invalid and do not change the value reported.
InputTexts ==
    { <<>>, <<"0">>, <<"-", "3">>, <<"1", "2">> }

\* ---------------------------------------------------------------- state

VARIABLES
    root,           \* how the entry file mounts the component: ReactDOM.render, or createRoot of React 18 or of React 19
    timer,          \* useState<TimerState>, lines 30-37: the state with every queued updater applied
    rendered,       \* `timer` of the render on screen, which the handlers and the effect close over
    settings,       \* useState<TimerSettings>, lines 24-28
    showSettings,   \* useState(false), line 39
    intervalRef,    \* intervalRef.current: 0 for null, else an interval id
    intervals,      \* live intervals: id -> the settings its callback closed over
    effectPending,  \* a dependency of the timer effect changed since it last ran
    queued,         \* what the updaters of the interval callbacks that wait for their render will emit
    fx,             \* what the last step emitted, one entry for each tick updater it ran
    last,           \* history: the last step, the timer and the waiting updates before it, the settings it read or wrote
    scen,           \* history: -1 untouched, n >= 0 start() then n ticks only, -2 otherwise
    cd,             \* history: the cues of the countdown under way
    edits,          \* history: settings edits so far
    stale           \* history: ticks fired since the effect last ran with no update waiting

vars == <<root, timer, rendered, settings, showSettings, intervalRef, intervals,
          effectPending, queued, fx, last, scen, cd, edits, stale>>

\* The entry file and the React release it installs decide the root; each
\* is a build of this component.  "concurrent" is createRoot of React 18,
\* "concurrent19" createRoot of React 19.
Roots == {"legacy", "concurrent", "concurrent19"}

NoFx == <<>>

\* ------------------------------------------------------------- updaters

\* Variant of WarningDue with the lower limit off by one (>= 0 for > 0).
WarningDue_fromZero(newTime) == newTime <= WarnFrom /\ newTime >= 0

\* The warning-beep condition of line 102.
WarningDue(newTime) == newTime <= WarnFrom /\ newTime > 0

\* Variant of TimeIsUp that fires one second early.
TimeIsUp_atOne(newTime) == newTime <= 1

\* The time's-up condition of line 107.
TimeIsUp(newTime) == newTime = 0

\* Special mode, lines 110-121: the turn ends.
SpecialEnd(prev, s) ==
    [state |-> [prev EXCEPT !.currentTime = s.specialTurnTime,
                            !.isRunning = FALSE,
                            !.isFinished = TRUE],
     toast |-> "special"]

\* Variant of TurnEnd that stops the timer as the other two branches do.
TurnEnd_stops(prev, s) ==
    [state |-> [prev EXCEPT !.currentTime = s.guessTime,
                            !.phase = "guess",
                            !.isRunning = FALSE],
     toast |-> "guess"]

\* Regular mode, phase turn, lines 122-132: on to the guess phase.
TurnEnd(prev, s) ==
    [state |-> [prev EXCEPT !.currentTime = s.guessTime,
                            !.phase = "guess"],
     toast |-> "guess"]

\* Variant of GuessEnd that does not set isFinished.
GuessEnd_notFinished(prev, s) ==
    [state |-> [prev EXCEPT !.currentTime = s.turnTime,
                            !.phase = "turn",
                            !.isRunning = FALSE],
     toast |-> "regular"]

\* Regular mode, phase guess, lines 133-146: back to turn, the turn ends.
GuessEnd(prev, s) ==
    [state |-> [prev EXCEPT !.currentTime = s.turnTime,
                            !.phase = "turn",
                            !.isRunning = FALSE,
                            !.isFinished = TRUE],
     toast |-> "regular"]

\* Variant of PhaseEnd that tests the phase before the mode.
PhaseEnd_phaseFirst(prev, s) ==
    IF prev.phase = "turn" THEN TurnEnd(prev, s)
    ELSE IF prev.mode = "special" THEN SpecialEnd(prev, s)
    ELSE GuessEnd(prev, s)

\* The branch taken when the time is up, lines 110-146: mode first, then
\* phase.
PhaseEnd(prev, s) ==
    IF prev.mode = "special" THEN SpecialEnd(prev, s)
    ELSE IF prev.phase = "turn" THEN TurnEnd(prev, s)
    ELSE GuessEnd(prev, s)

\* The updater the interval callback hands to setTimer (lines 98-150):
\* `prev` is the state it is applied to, `s` the settings of its closure.
\* The result is the new state and what the call emitted on the way: the
\* calls of playBeep and of playBuzzer, and the toast.
TickUpdater(prev, s) ==
    LET newTime == prev.currentTime - 1
        beep == IF WarningDue(newTime) THEN 1 ELSE 0
    IN  IF TimeIsUp(newTime)
        THEN LET e == PhaseEnd(prev, s)
             IN  [state |-> e.state,
                  fx |-> [beep |-> beep, buzzer |-> 1, toast |-> e.toast]]
        ELSE [state |-> [prev EXCEPT !.currentTime = newTime],
              fx |-> [beep |-> beep, buzzer |-> 0, toast |-> "none"]]

\* Variant of startTimer that flips isRunning as the main button does.
startTimer_flipsRunning(t) == [t EXCEPT !.isRunning = ~t.isRunning, !.isFinished = FALSE]

\* Variant of startTimer that does not clear isFinished.
startTimer_keepsFinished(t) == [t EXCEPT !.isRunning = TRUE]

\* The command handlers.  `r` is the `timer` of the render the handler
\* belongs to, which the handler reads before it calls setTimer; `t` is
\* the `prev` its updater is applied to.
startTimer(t) == [t EXCEPT !.isRunning = TRUE, !.isFinished = FALSE]

\* Variant of pauseTimer that also clears isFinished.
pauseTimer_clearsFinished(t) == [t EXCEPT !.isRunning = FALSE, !.isFinished = FALSE]

pauseTimer(t) == [t EXCEPT !.isRunning = FALSE]

\* Variant of resetTimer that does not clear isFinished.
resetTimer_keepsFinished(r, t, s) ==
    LET newTime == IF r.mode = "special" THEN s.specialTurnTime ELSE s.turnTime
    IN  [t EXCEPT !.isRunning = FALSE,
                  !.currentTime = newTime,
                  !.phase = "turn"]

resetTimer(r, t, s) ==
    LET newTime == IF r.mode = "special" THEN s.specialTurnTime ELSE s.turnTime
    IN  [t EXCEPT !.isRunning = FALSE,
                  !.currentTime = newTime,
                  !.phase = "turn",
                  !.isFinished = FALSE]

\* Variant of nextWord that does not wrap from the last word to the first.
nextWord_noWrap(r, t, s) ==
    [t EXCEPT !.isRunning = FALSE,
              !.currentTime = s.specialTurnTime,
              !.phase = "turn",
              !.isFinished = FALSE,
              !.currentWord = r.currentWord + 1]

nextWord(r, t, s) ==
    LET newWord == IF r.currentWord < WordMax THEN r.currentWord + 1 ELSE 1
    IN  [t EXCEPT !.isRunning = FALSE,
                  !.currentTime = s.specialTurnTime,
                  !.phase = "turn",
                  !.isFinished = FALSE,
                  !.currentWord = newWord]

updateTimerToSettings(r, t, s) ==
    LET newTime == IF r.mode = "special"
                   THEN s.specialTurnTime
                   ELSE IF r.phase = "turn" THEN s.turnTime ELSE s.guessTime
    IN  [t EXCEPT !.currentTime = newTime, !.isRunning = FALSE]

\* Variant of toggleMode that keeps the word index.
toggleMode_keepsWord(r, t, s) ==
    LET newMode == IF r.mode = "regular" THEN "special" ELSE "regular"
        newTime == IF newMode = "special" THEN s.specialTurnTime ELSE s.turnTime
    IN  [t EXCEPT !.mode = newMode,
                  !.currentTime = newTime,
                  !.phase = "turn",
                  !.isRunning = FALSE,
                  !.isFinished = FALSE]

toggleMode(r, t, s) ==
    LET newMode == IF r.mode = "regular" THEN "special" ELSE "regular"
        newTime == IF newMode = "special" THEN s.specialTurnTime ELSE s.turnTime
    IN  [t EXCEPT !.mode = newMode,
                  !.currentTime = newTime,
                  !.phase = "turn",
                  !.isRunning = FALSE,
                  !.isFinished = FALSE,
                  !.currentWord = 1]

\* The onChange handlers of the three settings inputs.
setTurnTime(s, text) ==
    [s EXCEPT !.turnTime = OrFallback(parseInt(text), TurnFallback)]

setGuessTime(s, text) ==
    [s EXCEPT !.guessTime = OrFallback(parseInt(text), GuessFallback)]

setSpecialTurnTime(s, text) ==
    [s EXCEPT !.specialTurnTime = OrFallback(parseInt(text), SpecialFallback)]

\* --------------------------------------------------------- timer effect

\* The dependencies of the timer effect that the model holds (line 164).
Deps(t, s) == <<t.isRunning, t.currentTime, t.phase, s>>

\* The cleanup of the previous run (lines 159-163): the interval the ref
\* names is cleared, the ref keeps its value.
EffectCleanup(live, ref) == [h \in (DOMAIN live) \ {ref} |-> live[h]]

\* The condition under which the effect arms an interval (line 96).
ArmCondition(t) == t.isRunning /\ t.currentTime > 0

\* The id setInterval returns: one that names no live interval (the least
\* such; an id whose interval was cleared names nothing any more).
FreshId(live) ==
    CHOOSE h \in 1..(Cardinality(DOMAIN live) + 1) :
        h \notin DOMAIN live /\ \A k \in 1..(h - 1) : k \in DOMAIN live

\* One run of the effect (lines 95-164): cleanup of the previous run, then
\* the body.  Gives the live intervals and the ref afterwards.
EffectRun(t, s, live, ref) ==
    LET cleaned == EffectCleanup(live, ref)
    IN  IF ArmCondition(t)
        THEN LET h == FreshId(cleaned)
             IN  [live |-> [k \in (DOMAIN cleaned) \cup {h} |->
                              IF k = h THEN s ELSE cleaned[k]],
                  ref |-> h]
        ELSE IF ref # 0
             THEN [live |-> [k \in (DOMAIN cleaned) \ {ref} |-> cleaned[k]],
                   ref |-> 0]
             ELSE [live |-> cleaned, ref |-> ref]

\* React runs the pending effect of the previous render before it renders
\* again: the live intervals and the ref when the next render starts.
Flushed ==
    IF effectPending
    THEN EffectRun(rendered, settings, intervals, intervalRef)
    ELSE [live |-> intervals, ref |-> intervalRef]

\* The commit of a click's or an edit's render, which shows t and s;
\* `changed` says that a dependency of the effect differs from the
\* previous render's.  A concurrent root runs the effect of a render that
\* an input event caused before the event returns; a legacy root leaves
\* it for later.  `ran` says that an effect ran within the step.
Committed(t, s, changed) ==
    IF changed /\ root # "legacy"
    THEN LET e == EffectRun(t, s, Flushed.live, Flushed.ref)
         IN  [live |-> e.live, ref |-> e.ref, pending |-> FALSE, ran |-> TRUE]
    ELSE [live |-> Flushed.live, ref |-> Flushed.ref, pending |-> changed,
          ran |-> effectPending]

\* The render of an input event and the updates of the interval callback
\* that wait for theirs: React 19 renders them along with the event's
\* update (Taken), React 18 leaves them for their own render (Left).
Taken == IF root = "concurrent19" THEN queued ELSE <<>>

Left == IF root = "concurrent19" THEN <<>> ELSE queued

\* -------------------------------------------------------------- history

Last(q) == q[Len(q)]

\* What one call of the tick updater emits when it runs (lines 99-146):
\* the cues in the order the code plays them, each with the newTime it is
\* played at, the toast, and, with a buzzer, the time the updater loads.
Emission(prev, r) ==
    [cues |-> [i \in 1..(r.fx.beep + r.fx.buzzer) |->
                 [cue |-> IF i <= r.fx.beep THEN "warning" ELSE "buzzer",
                  at |-> prev.currentTime - 1]],
     toast |-> r.fx.toast,
     next |-> IF r.fx.buzzer > 0 THEN r.state.currentTime ELSE 0]

\* A countdown starts at a command and after a tick that reached 0.  It is
\* followed (`long`) when it starts above the warning range and no cue of
\* an earlier tick is still to be played.
NewCountdown(currentTime, q) ==
    [long |-> currentTime > WarnFrom /\ q = <<>>, log |-> <<>>, next |-> 0]

\* The log of the countdown after the emissions es were played, in order.
RECURSIVE CountdownAfter(_, _)
CountdownAfter(c, es) ==
    IF es = <<>>
    THEN c
    ELSE LET e == Head(es)
             base == IF c.log # <<>> /\ Last(c.log).cue = "buzzer"
                     THEN NewCountdown(c.next, <<>>)
                     ELSE c
         IN  CountdownAfter([base EXCEPT !.log = @ \o e.cues, !.next = e.next],
                            Tail(es))

ScenarioCap == TurnInit + GuessInit + 1

\* A command: its updater is queued behind the updates already made, so
\* the timer becomes t2, the updater applied to `timer`; the click is
\* rendered with its handler.  Under React 18 an update of the interval
\* callback that waits for its render is not part of that render: it
\* shows r2, the updater applied to the timer on screen, and nothing is
\* emitted.  Under React 19 the render takes the waiting updates along:
\* their updaters run and play their cues, and the render shows t2.
Command(op, t2, r2) ==
    LET shown == IF root = "concurrent19" THEN t2 ELSE r2
        c == Committed(shown, settings, Deps(shown, settings) # Deps(rendered, settings))
    IN  /\ timer' = t2
        /\ rendered' = shown
        /\ intervals' = c.live
        /\ intervalRef' = c.ref
        /\ effectPending' = c.pending
        /\ stale' = IF c.ran /\ Left = <<>> THEN 0 ELSE stale
        /\ fx' = Taken
        /\ queued' = Left
        /\ last' = [op |-> op, pre |-> timer, read |-> settings, waiting |-> queued]
        /\ scen' = IF op = "start" /\ scen = -1 THEN 0 ELSE -2
        /\ cd' = NewCountdown(t2.currentTime, Left)
        /\ UNCHANGED <<root, settings, showSettings, edits>>

\* A settings edit: setSettings stores a new object, which is a changed
\* dependency of the effect whatever its fields.  The render it causes
\* holds the new settings; a timer update queued by the interval callback
\* keeps waiting for its own render under React 18 and is rendered along
\* under React 19.
Edit(op, s2) ==
    LET shown == IF root = "concurrent19" THEN timer ELSE rendered
        c == Committed(shown, s2, TRUE)
    IN  /\ showSettings
        /\ edits < MaxEdits
        /\ settings' = s2
        /\ edits' = edits + 1
        /\ rendered' = shown
        /\ fx' = Taken
        /\ queued' = Left
        /\ cd' = CountdownAfter(cd, Taken)
        /\ last' = [op |-> op, pre |-> timer, read |-> s2, waiting |-> queued]
        /\ scen' = -2
        /\ intervals' = c.live
        /\ intervalRef' = c.ref
        /\ effectPending' = c.pending
        /\ stale' = IF c.ran /\ Left = <<>> THEN 0 ELSE stale
        /\ UNCHANGED <<root, timer, showSettings>>

\* -------------------------------------------------------------- actions

InitTimer ==
    [isRunning |-> FALSE, currentTime |-> CurrentTimeInit, phase |-> "turn",
     isFinished |-> FALSE, mode |-> "regular", currentWord |-> 1]

InitSettings ==
    [turnTime |-> TurnInit, guessTime |-> GuessInit, specialTurnTime |-> SpecialInit]

\* The state after the first render and the first run of the effect, which
\* finds the timer stopped and the ref null.
Init ==
    /\ root \in Roots
    /\ timer = InitTimer
    /\ rendered = InitTimer
    /\ settings = InitSettings
    /\ showSettings = FALSE
    /\ intervalRef = 0
    /\ intervals = <<>>
    /\ effectPending = FALSE
    /\ fx = NoFx
    /\ last = [op |-> "init", pre |-> InitTimer, read |-> InitSettings, waiting |-> <<>>]
    /\ scen = -1
    /\ queued = <<>>
    /\ cd = NewCountdown(InitTimer.currentTime, <<>>)
    /\ edits = 0
    /\ stale = 0

\* The main button shows start when the timer of the render is stopped and
\* pause when it runs (line 352).
Start == ~rendered.isRunning /\ Command("start", startTimer(timer), startTimer(rendered))

Pause == rendered.isRunning /\ Command("pause", pauseTimer(timer), pauseTimer(rendered))

Reset ==
    Command("reset", resetTimer(rendered, timer, settings),
                     resetTimer(rendered, rendered, settings))

\* Variant of NextWord whose button is rendered in both modes.
NextWord_anyMode ==
    Command("nextWord", nextWord(rendered, timer, settings),
                        nextWord(rendered, rendered, settings))

\* The next-word button is rendered in special mode only (line 381).
NextWord ==
    /\ rendered.mode = "special"
    /\ Command("nextWord", nextWord(rendered, timer, settings),
                           nextWord(rendered, rendered, settings))

ToggleMode ==
    Command("toggleMode", toggleMode(rendered, timer, settings),
                          toggleMode(rendered, rendered, settings))

\* The apply button is part of the settings panel (lines 280, 317).
ApplySettings ==
    /\ showSettings
    /\ Command("applySettings", updateTimerToSettings(rendered, timer, settings),
                                updateTimerToSettings(rendered, rendered, settings))

EditTurn == \E text \in InputTexts : Edit("editTurn", setTurnTime(settings, text))

EditGuess == \E text \in InputTexts : Edit("editGuess", setGuessTime(settings, text))

EditSpecial ==
    \E text \in InputTexts : Edit("editSpecial", setSpecialTurnTime(settings, text))

\* The settings button (lines 270-277): setShowSettings and its render, in
\* which no dependency of the effect changes unless the render takes a
\* waiting update of the interval callback along.
ToggleSettings ==
    LET shown == IF root = "concurrent19" THEN timer ELSE rendered
        c == Committed(shown, settings, Deps(shown, settings) # Deps(rendered, settings))
    IN  /\ showSettings' = ~showSettings
        /\ rendered' = shown
        /\ fx' = Taken
        /\ queued' = Left
        /\ cd' = CountdownAfter(cd, Taken)
        /\ last' = [op |-> "toggleSettings", pre |-> timer, read |-> settings,
                    waiting |-> queued]
        /\ intervals' = c.live
        /\ intervalRef' = c.ref
        /\ stale' = IF c.ran /\ Left = <<>> THEN 0 ELSE stale
        /\ effectPending' = c.pending
        /\ UNCHANGED <<root, timer, settings, scen, edits>>

\* The callback of a live interval fires (lines 97-151): it calls
\* setTimer with its updater, which is applied to the current state,
\* whatever that state is, and returns.  The updater plays its cue when
\* React runs it: a legacy root renders within the call, under a
\* concurrent root the update waits for a render of its own and the
\* render on screen stays.
Tick ==
    \E h \in DOMAIN intervals :
        LET r == TickUpdater(timer, intervals[h])
            e == Emission(timer, r)
        IN  /\ stale < MaxStaleTicks
            /\ stale' = stale + 1
            /\ timer' = r.state
            /\ last' = [op |-> "tick", pre |-> timer, read |-> intervals[h],
                        waiting |-> queued]
            /\ scen' = IF scen < 0 THEN -2
                       ELSE IF scen < ScenarioCap THEN scen + 1 ELSE scen
            /\ \/ /\ root = "legacy"
                  /\ rendered' = r.state
                  /\ fx' = <<e>>
                  /\ cd' = CountdownAfter(cd, <<e>>)
                  /\ intervals' = Flushed.live
                  /\ intervalRef' = Flushed.ref
                  /\ effectPending' = (Deps(r.state, settings) # Deps(rendered, settings))
                  /\ UNCHANGED queued
               \/ /\ root # "legacy"
                  /\ queued' = Append(queued, e)
                  /\ fx' = NoFx
                  /\ UNCHANGED <<rendered, cd, intervals, intervalRef, effectPending>>
            /\ UNCHANGED <<root, settings, showSettings, edits>>

\* React renders the updates the interval callbacks have left: their
\* updaters run, in the order of the calls, and play their cues.
Render ==
    /\ queued # <<>>
    /\ rendered' = timer
    /\ fx' = queued
    /\ queued' = <<>>
    /\ cd' = CountdownAfter(cd, queued)
    /\ intervals' = Flushed.live
    /\ intervalRef' = Flushed.ref
    /\ stale' = stale
    /\ effectPending' = (Deps(timer, settings) # Deps(rendered, settings))
    /\ last' = [op |-> "render", pre |-> timer, read |-> settings, waiting |-> queued]
    /\ UNCHANGED <<root, timer, settings, showSettings, scen, edits>>

\* React runs the timer effect of the render on screen.
RunEffect ==
    /\ effectPending
    /\ LET e == EffectRun(rendered, settings, intervals, intervalRef)
       IN  /\ intervals' = e.live
           /\ intervalRef' = e.ref
    /\ effectPending' = FALSE
    /\ stale' = IF queued = <<>> THEN 0 ELSE stale
    /\ fx' = NoFx
    /\ last' = [op |-> "effect", pre |-> timer, read |-> settings, waiting |-> queued]
    /\ UNCHANGED <<root, timer, rendered, settings, showSettings, queued, scen, cd, edits>>

Next ==
    \/ Start
    \/ Pause
    \/ Reset
    \/ NextWord
    \/ ToggleMode
    \/ ApplySettings
    \/ EditTurn
    \/ EditGuess
    \/ EditSpecial
    \/ ToggleSettings
    \/ Tick
    \/ Render
    \/ RunEffect

Spec == Init /\ [][Next]_vars

\* --------------------------------------------------------------- claims

TickedFrom(mode, phase) ==
    /\ last.op = "tick"
    /\ last.pre.isRunning
    /\ last.pre.currentTime = 1
    /\ last.pre.mode = mode
    /\ last.pre.phase = phase

\* C1: in every reachable state isRunning and isFinished are not both
\* true.
C1_NotRunningAndFinished == ~(timer.isRunning /\ timer.isFinished)

\* C1 witness: start() has acted on a finished timer, which now runs.
C1_Witness ==
    /\ last.op = "start"
    /\ last.pre.isFinished
    /\ timer.isRunning

\* C2: the tick that brings a running Regular-Turn timer to 0 sets phase
\* to guess and currentTime to guessTime and changes nothing else, so the
\* timer still runs and is not finished; guessTime is the value the
\* interval callback holds, which is the store's whenever the effect has
\* run since the last change.  From the initial state, start() and 60
\* ticks give {guess, 30, running, not finished}.
C2_TurnEndsIntoGuess ==
    /\ TickedFrom("regular", "turn") =>
          /\ timer = [last.pre EXCEPT !.phase = "guess",
                                      !.currentTime = last.read.guessTime]
          /\ timer.isRunning
          /\ ~timer.isFinished
    /\ ~effectPending => \A h \in DOMAIN intervals : intervals[h] = settings
    /\ scen = TurnInit =>
          timer = [isRunning |-> TRUE, currentTime |-> GuessInit, phase |-> "guess",
                   isFinished |-> FALSE, mode |-> "regular", currentWord |-> 1]

\* C2 witness: the 60th tick of the scenario has fired.
C2_Witness == scen = TurnInit /\ TickedFrom("regular", "turn")

\* C3: the tick that brings a running Regular-Guess timer to 0 sets phase
\* to turn, currentTime to turnTime, isRunning to false and isFinished to
\* true, and leaves mode and currentWord; 30 more ticks of the scenario
\* give {turn, 60, stopped, finished}.
C3_GuessEndsTurn ==
    /\ TickedFrom("regular", "guess") =>
          timer = [last.pre EXCEPT !.phase = "turn",
                                   !.currentTime = last.read.turnTime,
                                   !.isRunning = FALSE,
                                   !.isFinished = TRUE]
    /\ scen = TurnInit + GuessInit =>
          timer = [isRunning |-> FALSE, currentTime |-> TurnInit, phase |-> "turn",
                   isFinished |-> TRUE, mode |-> "regular", currentWord |-> 1]

\* C3 witness: the 90th tick of the scenario has fired.
C3_Witness == scen = TurnInit + GuessInit /\ TickedFrom("regular", "guess")

\* C4: the tick that brings a running Special timer to 0 sets currentTime
\* to specialTurnTime, isRunning to false and isFinished to true and
\* leaves phase, mode and currentWord, whatever the phase; within special
\* mode the word index changes by nextWord() alone.
C4_SpecialEnds ==
    /\ \A ph \in {"turn", "guess"} :
          TickedFrom("special", ph) =>
             timer = [last.pre EXCEPT !.currentTime = last.read.specialTurnTime,
                                      !.isRunning = FALSE,
                                      !.isFinished = TRUE]
    /\ (/\ last.pre.mode = "special"
        /\ timer.mode = "special"
        /\ timer.currentWord # last.pre.currentWord) => last.op = "nextWord"

\* C4 witness: the last tick of the second word's turn has fired.
C4_Witness ==
    /\ \E ph \in {"turn", "guess"} : TickedFrom("special", ph)
    /\ timer.currentWord = 2
    /\ timer.isFinished

\* C5: a tick on a running timer with currentTime >= 2 lowers currentTime
\* by 1 and changes no other field.
C5_TickOnlyCountsDown ==
    (last.op = "tick" /\ last.pre.isRunning /\ last.pre.currentTime >= 2) =>
        timer = [last.pre EXCEPT !.currentTime = last.pre.currentTime - 1]

\* C5 witness: a tick has taken a running timer from 2 to 1.
C5_Witness ==
    /\ last.op = "tick"
    /\ last.pre.isRunning
    /\ last.pre.currentTime = 2
    /\ timer.currentTime = 1

FullCueLog ==
    [i \in 1..(WarnFrom + 1) |->
        IF i <= WarnFrom
        THEN [cue |-> "warning", at |-> WarnFrom + 1 - i]
        ELSE [cue |-> "buzzer", at |-> 0]]

\* The cues of a tick updater that computes newTime.
CuesOfNewTime(newTime) ==
    IF 1 <= newTime /\ newTime <= 5 THEN << [cue |-> "warning", at |-> newTime] >>
    ELSE IF newTime = 0 THEN << [cue |-> "buzzer", at |-> 0] >>
    ELSE <<>>

C7_TimeNonNegative == timer.currentTime >= 0

\* C8: the settings store holds turnTime and specialTurnTime in [10,300]
\* and guessTime in [5,120], whatever was typed.
C8_SettingsInBounds ==
    /\ settings.turnTime \in 10..300
    /\ settings.specialTurnTime \in 10..300
    /\ settings.guessTime \in 5..120

\* C9: a tick is never applied to a state whose isRunning is false.
C9_NoTickWhileStopped == last.op = "tick" => last.pre.isRunning

\* C10: once the current state is rendered and the effect has run for it,
\* an interval is armed if and only if isRunning is true, and never more
\* than one.
C10_ArmedIffRunning ==
    (~effectPending /\ timer = rendered) =>
        /\ (DOMAIN intervals # {}) <=> timer.isRunning
        /\ Cardinality(DOMAIN intervals) <= 1

\* The duration of a mode and phase under settings s.
NominalTime(mode, phase, s) ==
    IF mode = "special" THEN s.specialTurnTime
    ELSE IF phase = "turn" THEN s.turnTime ELSE s.guessTime

\* C11: in Regular mode nextWord() changes nothing, because it is never
\* issued there: the screen shows the mode of the state, its next-word
\* button exists in special mode alone, and so no nextWord step starts
\* from a state in Regular mode.
C11_NoNextWordInRegular ==
    /\ rendered.mode = timer.mode
    /\ last.pre.mode = "regular" => last.op # "nextWord"

\* C11 witness: the timer has just left special mode after nextWord() was
\* used there and an interval callback fired: the screen shows Regular
\* mode.
C11_Witness ==
    /\ last.op = "toggleMode"
    /\ last.pre.mode = "special"
    /\ last.pre.currentWord = 2
    /\ queued # <<>>
    /\ timer.mode = "regular"
    /\ rendered.mode = "regular"

\* C12: currentWord is in 1..5; nextWord() takes it to currentWord + 1
\* below 5 and to 1 at 5, and leaves the timer stopped, not finished, in
\* phase turn at specialTurnTime; toggleMode() takes it to 1; no other
\* operation changes it.
C12_WordCycle ==
    /\ timer.currentWord \in 1..WordMax
    /\ last.op = "nextWord" =>
          timer = [last.pre EXCEPT
                     !.currentWord = IF last.pre.currentWord < 5
                                     THEN last.pre.currentWord + 1 ELSE 1,
                     !.isRunning = FALSE,
                     !.isFinished = FALSE,
                     !.phase = "turn",
                     !.currentTime = last.read.specialTurnTime]
    /\ last.op = "toggleMode" => timer.currentWord = 1
    /\ last.op \notin {"nextWord", "toggleMode"} =>
          timer.currentWord = last.pre.currentWord

\* C12 witness: nextWord() has wrapped the word index from 5 to 1.
C12_Witness ==
    /\ last.op = "nextWord"
    /\ last.pre.currentWord = 5
    /\ timer.currentWord = 1

\* C13: applySettings sets currentTime to the duration of the current
\* mode and phase under the settings in the store and isRunning to false,
\* and leaves phase, mode, isFinished and currentWord.  The current phase
\* is the one of the state the updater is applied to (last.pre).
C13_ApplyReloadsCurrentPhase ==
    last.op = "applySettings" =>
        /\ last.read = settings
        /\ timer = [last.pre EXCEPT
                      !.currentTime =
                          NominalTime(last.pre.mode, last.pre.phase, settings),
                      !.isRunning = FALSE]

\* C14: reset() gives a stopped, unfinished timer in phase turn with
\* currentTime = specialTurnTime in special mode and turnTime otherwise,
\* and leaves mode and currentWord.
C14_ResetRestores ==
    last.op = "reset" =>
        timer = [last.pre EXCEPT
                   !.isRunning = FALSE,
                   !.isFinished = FALSE,
                   !.phase = "turn",
                   !.currentTime = IF last.pre.mode = "special"
                                   THEN last.read.specialTurnTime
                                   ELSE last.read.turnTime]

\* C14 witness: reset() has acted on a finished timer.
C14_Witness ==
    /\ last.op = "reset"
    /\ last.pre.isFinished
    /\ ~timer.isFinished

OtherMode(mode) == IF mode = "regular" THEN "special" ELSE "regular"

\* The settings the store can hold one edit after s.
OneEditFrom(s) ==
    {s} \cup {setTurnTime(s, x) : x \in InputTexts}
        \cup {setGuessTime(s, x) : x \in InputTexts}
        \cup {setSpecialTurnTime(s, x) : x \in InputTexts}

\* C15: toggleMode() flips mode and gives phase turn, a stopped and
\* unfinished timer, currentWord 1 and the duration of the new mode; a
\* second toggleMode(), whatever the settings then, gives the first mode
\* back with the same fields and the duration of that mode.
C15_ToggleRoundTrip ==
    last.op = "toggleMode" =>
        /\ timer = [mode |-> OtherMode(last.pre.mode),
                    phase |-> "turn",
                    isRunning |-> FALSE,
                    isFinished |-> FALSE,
                    currentWord |-> 1,
                    currentTime |-> IF last.pre.mode = "regular"
                                    THEN last.read.specialTurnTime
                                    ELSE last.read.turnTime]
        /\ \A s2 \in OneEditFrom(settings) :
              toggleMode(rendered, timer, s2) =
                 [mode |-> last.pre.mode,
                  phase |-> "turn",
                  isRunning |-> FALSE,
                  isFinished |-> FALSE,
                  currentWord |-> 1,
                  currentTime |-> IF last.pre.mode = "special"
                                  THEN s2.specialTurnTime
                                  ELSE s2.turnTime]

\* C15 witness: toggleMode() has acted on a running special-mode timer at
\* its third word.
C15_Witness ==
    /\ last.op = "toggleMode"
    /\ last.pre.mode = "special"
    /\ last.pre.currentWord = 3
    /\ last.pre.isRunning
    /\ timer.mode = "regular"

\* C16: start() sets isRunning, clears isFinished and leaves currentTime,
\* phase, mode and currentWord; applied to a running state it changes
\* nothing, and applied twice it gives what it gives applied once.
C16_StartResumes ==
    /\ last.op = "start" =>
          timer = [last.pre EXCEPT !.isRunning = TRUE, !.isFinished = FALSE]
    /\ timer.isRunning => startTimer(timer) = timer
    /\ startTimer(startTimer(timer)) = startTimer(timer)

\* C16 witness: start() has resumed a paused countdown part of the way
\* down, from the remaining time.
C16_Witness ==
    /\ last.op = "start"
    /\ last.pre.mode = "regular"
    /\ last.pre.phase = "turn"
    /\ last.pre.currentTime = 40
    /\ last.read.turnTime = TurnInit
    /\ timer.isRunning
    /\ timer.currentTime = 40

\* C17: pause() sets isRunning to false and changes no other field;
\* applied twice it gives what it gives applied once.
C17_PauseOnlyStops ==
    /\ last.op = "pause" => timer = [last.pre EXCEPT !.isRunning = FALSE]
    /\ pauseTimer(pauseTimer(timer)) = pauseTimer(timer)
    /\ ~timer.isRunning => pauseTimer(timer) = timer

\* C17 witness: pause() has stopped a running countdown.
C17_Witness ==
    /\ last.op = "pause"
    /\ last.pre.isRunning
    /\ ~timer.isRunning
    /\ timer.currentTime = last.pre.currentTime

\* C18: a running timer is never left without a tick to come: an interval
\* is live, or a run of the effect is pending.  (From a state where this
\* fails no tick is ever delivered, and the timer runs for ever without
\* finishing.)
C18_RunningTimerTicks ==
    timer.isRunning => (DOMAIN intervals # {} \/ effectPending)

\* C19: as long as the settings are the ones the component starts with,
\* 1 <= currentTime <= the duration of the mode and phase.
C19_TimeWithinDuration ==
    edits = 0 =>
        /\ timer.currentTime >= 1
        /\ timer.currentTime <= NominalTime(timer.mode, timer.phase, settings)

\* C20: a settings edit changes no field of the timer, and the duration
\* loaded by a phase-end tick, reset(), nextWord() or toggleMode() is the
\* one in the settings store at that moment.
C20_LoadsStoreValue ==
    /\ last.op \in {"editTurn", "editGuess", "editSpecial"} => timer = last.pre
    /\ last.op \in {"reset", "nextWord", "toggleMode"} =>
          timer.currentTime = NominalTime(timer.mode, timer.phase, settings)
    /\ (last.op = "tick" /\ last.pre.currentTime = 1) =>
          timer.currentTime = NominalTime(timer.mode, timer.phase, settings)

====
